---- MODULE Spec2Model ----
(***************************************************************************)
(* daisy-extract (src/extract.py): extraction of a DAISY 2.02 book into    *)
(* numbered audio tracks and an M3U playlist.                              *)
(*                                                                         *)
(* Text is modelled as Python models it: a string is a sequence of code    *)
(* points.  The absent value None of an attribute lookup is the empty      *)
(* tuple <<>>, a present value s is the one-element tuple <<s>>.           *)
(***************************************************************************)
EXTENDS Integers, Sequences, FiniteSets, TLC

VARIABLES
    pc,                      \* position of main()
    inputDirOk,              \* the input directory exists and is a directory
    input_directory,         \* absolute path of the input directory
    nccNames,                \* navigation-file names present in the input directory
    ncc,                     \* the navigation document: its dc:title and dc:creator metas
    listing,                 \* names in the input directory, in the order the OS lists them
    dirExisted,              \* the output directory exists before the run
    ncc_path,                \* <<>> or <<path of the navigation file found>>
    metadata,                \* <<>> or <<BookMetadata>>
    output_directory,        \* path of the book's output directory, once computed
    documents,               \* result of find_smil_documents
    sections,                \* the timing documents parsed so far (as parsed)
    source_audio_files,      \* (section_title, file_path) pairs
    mkdirOutcome,            \* how os.makedirs ended
    created,                 \* the run created the output directory
    track_number,
    destination_audio_files,
    fsFiles,                 \* files the run has written into the output directory
    playlist,                \* <<>> or <<text written to the .m3u file>>
    error,                   \* kind of the error that ended the run
    reason,                  \* str(e) of the exception that ended the run
    surfaced,                \* "message" (exit_with_error) or "traceback" (uncaught)
    exitCode,
    calls,                   \* filesystem operations performed, in order
    hpc, hin, hout, hout2    \* harness of the pure functions: position, input, results

vars == <<pc, inputDirOk, input_directory, nccNames, ncc, listing, dirExisted, ncc_path, metadata,
          output_directory, documents, sections, source_audio_files, mkdirOutcome,
          created, track_number, destination_audio_files, fsFiles, playlist, error,
          reason, surfaced, exitCode, calls, hpc, hin, hout, hout2>>

mainVars == <<pc, inputDirOk, input_directory, nccNames, ncc, listing, dirExisted, ncc_path, metadata,
          output_directory, documents, sections, source_audio_files, mkdirOutcome,
          created, track_number, destination_audio_files, fsFiles, playlist, error,
          reason, surfaced, exitCode, calls>>

harnessVars == <<hpc, hin, hout, hout2>>

----------------------------------------------------------------------------
(* Bounds *)

MaxLen == 4          \* longest string given to make_safe_filename
MaxFiles == 3        \* most names in a directory given to find_smil_documents
MaxDocs == 3         \* most names in the input directory of a whole run

----------------------------------------------------------------------------
(* Characters and strings *)

Ord ==
    ("\t" :> 9) @@ ("\n" :> 10) @@ (" " :> 32) @@ ("\"" :> 34) @@ ("*" :> 42) @@
    ("," :> 44) @@ ("-" :> 45) @@ ("." :> 46) @@ ("/" :> 47) @@
    ("0" :> 48) @@ ("1" :> 49) @@ ("2" :> 50) @@ ("3" :> 51) @@ ("4" :> 52) @@
    ("5" :> 53) @@ ("6" :> 54) @@ ("7" :> 55) @@ ("8" :> 56) @@ ("9" :> 57) @@
    (":" :> 58) @@ ("<" :> 60) @@ (">" :> 62) @@ ("?" :> 63) @@
    ("A" :> 65) @@ ("B" :> 66) @@ ("C" :> 67) @@ ("E" :> 69) @@ ("H" :> 72) @@
    ("I" :> 73) @@ ("L" :> 76) @@ ("M" :> 77) @@ ("N" :> 78) @@ ("P" :> 80) @@
    ("R" :> 82) @@ ("S" :> 83) @@ ("T" :> 84) @@
    ("\\" :> 92) @@ ("^" :> 94) @@ ("_" :> 95) @@
    ("a" :> 97) @@ ("b" :> 98) @@ ("c" :> 99) @@ ("d" :> 100) @@ ("e" :> 101) @@
    ("h" :> 104) @@ ("i" :> 105) @@ ("l" :> 108) @@ ("m" :> 109) @@ ("n" :> 110) @@ ("o" :> 111) @@
    ("p" :> 112) @@ ("r" :> 114) @@ ("s" :> 115) @@ ("t" :> 116) @@ ("u" :> 117) @@
    ("w" :> 119) @@ ("x" :> 120) @@ ("|" :> 124)

\* The string whose characters are cs, as code points.
Str(cs) == [i \in 1..Len(cs) |-> Ord[cs[i]]]

IsDigit(c) == c \in Ord["0"]..Ord["9"]

\* str.upper / str.lower on the ASCII letters
upper(s) == [i \in 1..Len(s) |-> IF s[i] \in Ord["a"]..(Ord["a"] + 25) THEN s[i] - 32 ELSE s[i]]
lower(s) == [i \in 1..Len(s) |-> IF s[i] \in Ord["A"]..(Ord["A"] + 25) THEN s[i] + 32 ELSE s[i]]

\* str.endswith
endswith(s, suffix) ==
    /\ Len(suffix) <= Len(s)
    /\ SubSeq(s, Len(s) - Len(suffix) + 1, Len(s)) = suffix

\* sep.join(parts)
RECURSIVE str_join(_, _)
str_join(sep, parts) ==
    IF parts = <<>> THEN <<>>
    ELSE IF Len(parts) = 1 THEN parts[1]
    ELSE parts[1] \o sep \o str_join(sep, Tail(parts))

\* All strings over alphabet of length at most n
StringsUpTo(alphabet, n) == UNION {[1..k -> alphabet] : k \in 0..n}

----------------------------------------------------------------------------
(* make_safe_filename *)

disallowed_ascii == 0..31

disallowed_chars_keep_colon ==
    {Ord[c] : c \in {"<", ">", "\"", "/", "\\", "|", "?", "*", "^"}} \cup disallowed_ascii

disallowed_chars ==
    {Ord[c] : c \in {"<", ">", ":", "\"", "/", "\\", "|", "?", "*", "^"}} \cup disallowed_ascii

\* filename.replace(': ', ' - ')
RECURSIVE replace_colon_space(_)
replace_colon_space(s) ==
    IF s = <<>> THEN <<>>
    ELSE IF Len(s) >= 2 /\ s[1] = Ord[":"] /\ s[2] = Ord[" "]
         THEN Str(<<" ", "-", " ">>) \o replace_colon_space(SubSeq(s, 3, Len(s)))
         ELSE <<s[1]>> \o replace_colon_space(Tail(s))

\* .translate(translator)
translate(s) == [i \in 1..Len(s) |-> IF s[i] \in disallowed_chars THEN Ord["_"] ELSE s[i]]

rstrip_once(s, chars) ==
    IF s # <<>> /\ s[Len(s)] \in chars THEN SubSeq(s, 1, Len(s) - 1) ELSE s

\* .rstrip(chars)
RECURSIVE rstrip(_, _)
rstrip(s, chars) ==
    IF s # <<>> /\ s[Len(s)] \in chars
    THEN rstrip(SubSeq(s, 1, Len(s) - 1), chars)
    ELSE s

make_safe_filename(filename) ==
    rstrip(translate(replace_colon_space(filename)), {Ord["."], Ord[" "]})

----------------------------------------------------------------------------
(* The state of main() while a pure function is checked on its own *)

Idle ==
    /\ pc = "Idle"
    /\ inputDirOk = TRUE
    /\ input_directory = <<>>
    /\ nccNames = {}
    /\ ncc = [titleTags |-> <<>>, creatorTags |-> <<>>]
    /\ listing = <<>>
    /\ dirExisted = FALSE
    /\ ncc_path = <<>>
    /\ metadata = <<>>
    /\ output_directory = <<>>
    /\ documents = <<>>
    /\ sections = <<>>
    /\ source_audio_files = <<>>
    /\ mkdirOutcome = "none"
    /\ created = FALSE
    /\ track_number = 1
    /\ destination_audio_files = <<>>
    /\ fsFiles = <<>>
    /\ playlist = <<>>
    /\ error = "None"
    /\ reason = ""
    /\ surfaced = "none"
    /\ exitCode = 0
    /\ calls = <<>>

----------------------------------------------------------------------------
(* make_safe_filename applied to a string, and to its own result *)

SanAlphabet == {Ord[c] : c \in {"\t", " ", ".", ":", "-", "^", "_", "a"}}

SanInit ==
    /\ Idle
    /\ hpc = "input"
    /\ hin \in StringsUpTo(SanAlphabet, MaxLen)
    /\ hout = <<>>
    /\ hout2 = <<>>

SanOnce ==
    /\ hpc = "input"
    /\ hout' = make_safe_filename(hin)
    /\ hpc' = "once"
    /\ UNCHANGED <<hin, hout2>>
    /\ UNCHANGED mainVars

SanTwice ==
    /\ hpc = "once"
    /\ hout2' = make_safe_filename(hout)
    /\ hpc' = "twice"
    /\ UNCHANGED <<hin, hout>>
    /\ UNCHANGED mainVars

SanNext == SanOnce \/ SanTwice

SanSpec == SanInit /\ [][SanNext]_vars

----------------------------------------------------------------------------
(* Paths *)

\* os.path.join(a, b) on a POSIX path: b replaces a when b is absolute
os_path_join(a, b) ==
    IF b # <<>> /\ b[1] = Ord["/"] THEN b
    ELSE IF a = <<>> \/ a[Len(a)] = Ord["/"] THEN a \o b
    ELSE a \o Str(<<"/">>) \o b

\* Index of the last occurrence of c in s, 0 when there is none
last_index(s, c) ==
    IF \E i \in 1..Len(s) : s[i] = c
    THEN CHOOSE i \in 1..Len(s) : s[i] = c /\ \A j \in (i + 1)..Len(s) : s[j] # c
    ELSE 0

\* os.path.split(path)[-1]
basename(path) == SubSeq(path, last_index(path, Ord["/"]) + 1, Len(path))

\* os.path.splitext(path)[-1]: from the last dot of the last component, unless
\* only dots precede it there
splitext_ext(path) ==
    LET name == basename(path)
        dot  == last_index(name, Ord["."])
    IN  IF dot > 0 /\ \E i \in 1..(dot - 1) : name[i] # Ord["."]
        THEN SubSeq(name, dot, Len(name))
        ELSE <<>>

----------------------------------------------------------------------------
(* natsorted: the natsort library's default ordering (ns.DEFAULT) *)

RECURSIVE digit_run(_)
digit_run(s) == IF s # <<>> /\ IsDigit(s[1]) THEN 1 + digit_run(Tail(s)) ELSE 0

RECURSIVE text_run(_)
text_run(s) == IF s # <<>> /\ ~IsDigit(s[1]) THEN 1 + text_run(Tail(s)) ELSE 0

\* int(digits)
RECURSIVE int_of(_)
int_of(digits) ==
    IF digits = <<>> THEN 0
    ELSE 10 * int_of(SubSeq(digits, 1, Len(digits) - 1)) + (digits[Len(digits)] - Ord["0"])

TextToken(s) == [num |-> FALSE, n |-> 0, s |-> s]
NumToken(n) == [num |-> TRUE, n |-> n, s |-> <<>>]

\* The string cut into its maximal digit runs (as numbers) and the text between
RECURSIVE nat_split(_)
nat_split(s) ==
    IF s = <<>> THEN <<>>
    ELSE IF IsDigit(s[1])
         THEN LET k == digit_run(s)
              IN  <<NumToken(int_of(SubSeq(s, 1, k)))>> \o nat_split(SubSeq(s, k + 1, Len(s)))
         ELSE LET k == text_run(s)
              IN  <<TextToken(SubSeq(s, 1, k))>> \o nat_split(SubSeq(s, k + 1, Len(s)))

\* The sort key: a tuple that alternates text and numbers and starts with text
natsort_key(s) ==
    LET t == nat_split(s)
    IN  IF t # <<>> /\ t[1].num THEN <<TextToken(<<>>)>> \o t ELSE t

\* Python's < on strings: lexicographic by code point
RECURSIVE str_lt(_, _)
str_lt(a, b) ==
    IF b = <<>> THEN FALSE
    ELSE IF a = <<>> THEN TRUE
    ELSE IF a[1] = b[1] THEN str_lt(Tail(a), Tail(b))
    ELSE a[1] < b[1]

token_lt(a, b) ==
    IF a.num /\ b.num THEN a.n < b.n
    ELSE IF ~a.num /\ ~b.num THEN str_lt(a.s, b.s)
    ELSE FALSE

\* Python's < on tuples
RECURSIVE tuple_lt(_, _)
tuple_lt(a, b) ==
    IF b = <<>> THEN FALSE
    ELSE IF a = <<>> THEN TRUE
    ELSE IF a[1] = b[1] THEN tuple_lt(Tail(a), Tail(b))
    ELSE token_lt(a[1], b[1])

natsort_lt(a, b) == tuple_lt(natsort_key(a), natsort_key(b))

\* sorted(...) is stable: x goes after every element not greater than it
RECURSIVE insert_natural(_, _)
insert_natural(x, seq) ==
    IF seq = <<>> THEN <<x>>
    ELSE IF natsort_lt(x, seq[Len(seq)])
         THEN insert_natural(x, SubSeq(seq, 1, Len(seq) - 1)) \o <<seq[Len(seq)]>>
         ELSE seq \o <<x>>

RECURSIVE insert_plain(_, _)
insert_plain(x, seq) ==
    IF seq = <<>> THEN <<x>>
    ELSE IF str_lt(x, seq[Len(seq)])
         THEN insert_plain(x, SubSeq(seq, 1, Len(seq) - 1)) \o <<seq[Len(seq)]>>
         ELSE seq \o <<x>>

\* sorted(seq): the natural key left out
RECURSIVE sorted_plain(_)
sorted_plain(seq) ==
    IF seq = <<>> THEN <<>>
    ELSE insert_plain(seq[Len(seq)], sorted_plain(SubSeq(seq, 1, Len(seq) - 1)))

RECURSIVE natsorted(_)
natsorted(seq) ==
    IF seq = <<>> THEN <<>>
    ELSE insert_natural(seq[Len(seq)], natsorted(SubSeq(seq, 1, Len(seq) - 1)))

----------------------------------------------------------------------------
(* find_ncc_path and find_smil_documents *)

NCC_FILENAME == Str(<<"N", "C", "C", ".", "H", "T", "M", "L">>)
MASTER_SMIL_FILENAME == Str(<<"M", "A", "S", "T", "E", "R", ".", "S", "M", "I", "L">>)

\* fnmatch of a name against SMIL_GLOB = '*.[sS][mM][iI][lL]'; glob leaves out
\* the names that start with a dot
glob_match(name) ==
    /\ Len(name) >= 5
    /\ name[1] # Ord["."]
    /\ lower(SubSeq(name, Len(name) - 4, Len(name))) = Str(<<".", "s", "m", "i", "l">>)

\* glob.iglob(os.path.join(directory, SMIL_GLOB)), names in the order listed
iglob(directory, names) ==
    LET matching == {i \in 1..Len(names) : glob_match(names[i])}
        RECURSIVE pick(_)
        pick(i) ==
            IF i > Len(names) THEN <<>>
            ELSE IF i \in matching THEN <<os_path_join(directory, names[i])>> \o pick(i + 1)
            ELSE pick(i + 1)
    IN  pick(1)

\* filter(lambda smil: not smil.upper().endswith(MASTER_SMIL_FILENAME), ...)
RECURSIVE filter_master(_)
filter_master(paths) ==
    IF paths = <<>> THEN <<>>
    ELSE IF ~endswith(upper(paths[1]), MASTER_SMIL_FILENAME)
         THEN <<paths[1]>> \o filter_master(Tail(paths))
         ELSE filter_master(Tail(paths))

\* find_smil_documents without its check that a document was found
find_smil_documents_unchecked(directory, names) ==
    [ok |-> TRUE, documents |-> natsorted(filter_master(iglob(directory, names)))]

\* Either the sorted documents, or InvalidDAISYBookError('No SMIL documents found')
find_smil_documents(directory, names) ==
    LET docs == filter_master(iglob(directory, names))
    IN  IF docs # <<>>
        THEN [ok |-> TRUE, documents |-> natsorted(docs)]
        ELSE [ok |-> FALSE, documents |-> <<>>]

\* Either <<path>>, or <<>> for InvalidDAISYBookError('Could not find NCC file')
find_ncc_path(directory, present) ==
    IF NCC_FILENAME \in present THEN <<os_path_join(directory, NCC_FILENAME)>>
    ELSE IF lower(NCC_FILENAME) \in present
         THEN <<os_path_join(directory, lower(NCC_FILENAME))>>
         ELSE <<>>

\* Sequences without repetition over S of length at most n
InjectiveSeqs(S, n) ==
    {q \in UNION {[1..k -> S] : k \in 0..n} : \A i, j \in 1..Len(q) : i # j => q[i] # q[j]}

----------------------------------------------------------------------------
(* find_smil_documents applied to a directory listing *)

LocNames == {
    Str(<<"1", ".", "s", "m", "i", "l">>),
    Str(<<"2", ".", "s", "m", "i", "l">>),
    Str(<<"1", "0", ".", "S", "M", "I", "L">>),
    Str(<<"0", "2", ".", "s", "m", "i", "l">>),
    Str(<<"a", "1", ".", "s", "m", "i", "l">>),
    Str(<<"B", "2", ".", "s", "m", "i", "l">>),
    Str(<<"m", "a", "s", "t", "e", "r", ".", "s", "m", "i", "l">>),
    Str(<<"M", "A", "S", "T", "E", "R", ".", "S", "M", "I", "L">>),
    Str(<<"w", "e", "b", "m", "a", "s", "t", "e", "r", ".", "s", "m", "i", "l">>),
    Str(<<"a", ".", "m", "p", "3">>),
    Str(<<".", "s", "m", "i", "l">>) }

LocDirectories == {Str(<<"/", "d">>), Str(<<"/", "d", "2">>)}

LocInit ==
    /\ Idle
    /\ hpc = "input"
    /\ hin \in [directory : LocDirectories, names : InjectiveSeqs(LocNames, MaxFiles)]
    /\ hout = <<>>
    /\ hout2 = <<>>

LocFind ==
    /\ hpc = "input"
    /\ hout' = find_smil_documents(hin.directory, hin.names)
    /\ hpc' = "found"
    /\ UNCHANGED <<hin, hout2>>
    /\ UNCHANGED mainVars

LocNext == LocFind

LocSpec == LocInit /\ [][LocNext]_vars

----------------------------------------------------------------------------
(* Parsed documents: what BeautifulSoup's find / find_all / attrs.get return *)

None == <<>>
Some(s) == <<s>>

\* x is None
is_none(x) == x = None

\* not x, for x None or a string
falsy(x) == x = None \/ x[1] = <<>>

\* doc.find('meta', ...): the first matching tag's content, wrapped, or None
find_first(tags) == IF tags = <<>> THEN None ELSE Some(tags[1])

TITLE_NOT_FOUND == "The title of the DAISY book could not be found"
TITLE_BLANK == "The title of the DAISY book is blank"
NO_AUTHORS == "No authors are listed in the DAISY book"

create_metadata_object_from_ncc(doc) ==
    LET title_tag == find_first(doc.titleTags)
    IN  IF title_tag = None
        THEN [kind |-> "ExtractMetadataError", reason |-> TITLE_NOT_FOUND, value |-> <<>>]
        ELSE IF falsy(title_tag[1])
        THEN [kind |-> "ExtractMetadataError", reason |-> TITLE_BLANK, value |-> <<>>]
        ELSE IF doc.creatorTags = <<>>
        THEN [kind |-> "ExtractMetadataError", reason |-> NO_AUTHORS, value |-> <<>>]
        ELSE IF \E i \in 1..Len(doc.creatorTags) : doc.creatorTags[i] = None
        THEN [kind |-> "TypeError", reason |-> "sequence item: expected str instance, NoneType found",
              value |-> <<>>]
        ELSE [kind |-> "ok", reason |-> "",
              value |-> <<[authors |-> str_join(Str(<<",", " ">>),
                                                [i \in 1..Len(doc.creatorTags) |-> doc.creatorTags[i][1]]),
                           title |-> title_tag[1][1]]>>]

SMIL_NO_TITLE_TAG == "Unable to extract title from SMIL document"
SMIL_NO_TITLE == "SMIL document has no title"

find_document_title(doc) ==
    LET title_tag == find_first(doc.titleTags)
    IN  IF title_tag = None
        THEN [kind |-> "ExtractMetadataError", reason |-> SMIL_NO_TITLE_TAG, value |-> <<>>]
        ELSE IF falsy(title_tag[1])
        THEN [kind |-> "ExtractMetadataError", reason |-> SMIL_NO_TITLE, value |-> <<>>]
        ELSE [kind |-> "ok", reason |-> "", value |-> title_tag[1][1]]

\* The src values as listed, duplicates kept
all_audio_filenames(audio) == audio

\* The src values in order of first appearance
RECURSIVE get_audio_filenames_from_smil(_)
get_audio_filenames_from_smil(audio) ==
    IF audio = <<>> THEN <<>>
    ELSE LET before == get_audio_filenames_from_smil(SubSeq(audio, 1, Len(audio) - 1))
             file   == audio[Len(audio)]
         IN  IF \E i \in 1..Len(before) : before[i] = file THEN before ELSE before \o <<file>>

----------------------------------------------------------------------------
(* Destination names *)

is_windows == FALSE

add_path_prefix(path) == Str(<<"\\", "\\", "?", "\\">>) \o path

RECURSIVE digits_of(_)
digits_of(n) ==
    IF n < 10 THEN <<Ord["0"] + n>> ELSE digits_of(n \div 10) \o <<Ord["0"] + (n % 10)>>

\* '{0:02d}'.format(n)
format_02d(n) == IF n < 10 THEN <<Ord["0"]>> \o digits_of(n) ELSE digits_of(n)

\* '{0:02d} - {1}.{2}'.format(track_number, make_safe_filename(section_name), extension)
destination_filename(n, section_name, file_path) ==
    LET ext == splitext_ext(file_path)
    IN  format_02d(n) \o Str(<<" ", "-", " ">>) \o make_safe_filename(section_name)
          \o Str(<<".">>) \o lower(SubSeq(ext, 2, Len(ext)))

\* '{0}.m3u'.format(make_safe_filename(metadata.title))
playlist_filename(title) == make_safe_filename(title) \o Str(<<".", "m", "3", "u">>)

\* '\n'.join(parts) with a line feed after the last part as well
join_lines_terminated(parts) ==
    IF parts = <<>> THEN <<>> ELSE str_join(Str(<<"\n">>), parts) \o Str(<<"\n">>)

\* '\n'.join(destination_audio_files)
playlist_text(parts) == str_join(Str(<<"\n">>), parts)

\* The exceptions of os.makedirs that main() passes over
makedirs_only_exists == {"FileExistsError"}
makedirs_swallowed == {"FileExistsError", "PermissionError"}

----------------------------------------------------------------------------
(* The inputs of a run *)

OutputRoot == Str(<<"/", "o">>)
InputDirectory == Str(<<"/", "d">>)

NccNamePool == {NCC_FILENAME, lower(NCC_FILENAME)}

NccTitlePool == {
    <<>>,
    <<None>>,
    <<Some(<<>>)>>,
    <<Some(Str(<<" ">>))>>,
    <<Some(Str(<<"T", ":", " ", "A">>))>>,
    <<Some(<<>>), Some(Str(<<"T", ":", " ", "A">>))>> }

NccCreatorPool == {
    <<>>,
    <<None>>,
    <<Some(Str(<<"A", ".">>))>>,
    <<Some(Str(<<"A">>)), Some(Str(<<"B", ".">>))>> }

MainNames == {
    Str(<<"1", ".", "s", "m", "i", "l">>),
    Str(<<"2", ".", "s", "m", "i", "l">>),
    Str(<<"1", "0", ".", "s", "m", "i", "l">>),
    Str(<<"m", "a", "s", "t", "e", "r", ".", "s", "m", "i", "l">>) }

SmilTitlePool == {
    <<>>,
    <<Some(<<>>)>>,
    <<Some(Str(<<"C", "1">>))>>,
    <<Some(Str(<<"C", ":", "2", ".">>))>> }

SmilAudioPool == {
    <<>>,
    <<None>>,
    <<Some(Str(<<"a", ".", "m", "p", "3">>))>>,
    <<Some(Str(<<"a", ".", "m", "p", "3">>)), Some(Str(<<"b", ".", "M", "P", "3">>)),
      Some(Str(<<"a", ".", "m", "p", "3">>))>> }

\* The names of S as one listing: the directory is listed in an order of the
\* operating system's choosing, here the descending one, so that the sort has
\* work to do (every order is tried on find_smil_documents alone, in LocSpec)
RECURSIVE ListingOf(_)
ListingOf(S) ==
    IF S = {} THEN <<>>
    ELSE LET last == CHOOSE x \in S : \A y \in S : x = y \/ str_lt(x, y)
         IN  ListingOf(S \ {last}) \o <<last>>

Listings(pool, n) == {ListingOf(S) : S \in {T \in SUBSET pool : Cardinality(T) <= n}}

HarnessIdle ==
    /\ hpc = "idle"
    /\ hin = <<>>
    /\ hout = <<>>
    /\ hout2 = <<>>

Init ==
    /\ HarnessIdle
    /\ pc = "Start"
    /\ inputDirOk \in BOOLEAN
    /\ input_directory = InputDirectory
    /\ nccNames \in (IF inputDirOk THEN SUBSET NccNamePool ELSE {{}})
    /\ ncc \in (IF inputDirOk /\ nccNames # {}
                THEN [titleTags : NccTitlePool, creatorTags : NccCreatorPool]
                ELSE {[titleTags |-> <<>>, creatorTags |-> <<>>]})
    /\ listing \in (IF inputDirOk THEN Listings(MainNames, MaxDocs) ELSE {<<>>})
    /\ dirExisted \in BOOLEAN
    /\ ncc_path = <<>>
    /\ metadata = <<>>
    /\ output_directory = <<>>
    /\ documents = <<>>
    /\ sections = <<>>
    /\ source_audio_files = <<>>
    /\ mkdirOutcome = "none"
    /\ created = FALSE
    /\ track_number = 1
    /\ destination_audio_files = <<>>
    /\ fsFiles = <<>>
    /\ playlist = <<>>
    /\ error = "None"
    /\ reason = ""
    /\ surfaced = "none"
    /\ exitCode = 0
    /\ calls = <<>>

----------------------------------------------------------------------------
(* main() *)

\* exit_with_error(message): the message is logged and the process exits with 1
exit_with_error(kind, why) ==
    /\ pc' = "Failed"
    /\ error' = kind
    /\ reason' = why
    /\ surfaced' = "message"
    /\ exitCode' = 1

\* An exception nothing catches: the interpreter prints a traceback and exits with 1
uncaught(kind, why) ==
    /\ pc' = "Failed"
    /\ error' = kind
    /\ reason' = why
    /\ surfaced' = "traceback"
    /\ exitCode' = 1

proceed(next) ==
    /\ pc' = next
    /\ UNCHANGED <<error, reason, surfaced, exitCode>>

inputs == <<inputDirOk, input_directory, nccNames, ncc, listing, dirExisted>>

Validate ==
    /\ pc = "Start"
    /\ calls' = Append(calls, "isdir")
    /\ IF ~inputDirOk
       THEN exit_with_error("InvalidInput", "does not exist or is not a directory")
       ELSE proceed("Validated")
    /\ UNCHANGED <<inputs, ncc_path, metadata, output_directory, documents, sections,
                   source_audio_files, mkdirOutcome, created, track_number,
                   destination_audio_files, fsFiles, playlist>>
    /\ UNCHANGED harnessVars

FindNccPath ==
    /\ pc = "Validated"
    /\ calls' = Append(calls, "isfile")
    /\ ncc_path' = find_ncc_path(input_directory, nccNames)
    /\ IF ncc_path' = <<>>
       THEN exit_with_error("NotADaisyBook", "Could not find NCC file")
       ELSE proceed("Located")
    /\ UNCHANGED <<inputs, metadata, output_directory, documents, sections,
                   source_audio_files, mkdirOutcome, created, track_number,
                   destination_audio_files, fsFiles, playlist>>
    /\ UNCHANGED harnessVars

CreateMetadataObject ==
    /\ pc = "Located"
    /\ calls' = Append(calls, "open_ncc")
    /\ LET r == create_metadata_object_from_ncc(ncc)
       IN  /\ metadata' = r.value
           /\ CASE r.kind = "ok" ->
                     /\ output_directory' =
                            os_path_join(os_path_join(OutputRoot, make_safe_filename(r.value[1].authors)),
                                         make_safe_filename(r.value[1].title))
                     /\ proceed("MetadataExtracted")
                [] r.kind = "ExtractMetadataError" ->
                     /\ exit_with_error("MetadataMissing", r.reason)
                     /\ UNCHANGED output_directory
                [] OTHER ->
                     /\ uncaught(r.kind, r.reason)
                     /\ UNCHANGED output_directory
    /\ UNCHANGED <<inputs, ncc_path, documents, sections,
                   source_audio_files, mkdirOutcome, created, track_number,
                   destination_audio_files, fsFiles, playlist>>
    /\ UNCHANGED harnessVars

FindSmilDocuments ==
    /\ pc = "MetadataExtracted"
    /\ calls' = Append(calls, "glob")
    /\ LET r == find_smil_documents(input_directory, listing)
       IN  /\ documents' = r.documents
           /\ IF r.ok
              THEN proceed("Parsing")
              ELSE uncaught("NotADaisyBook", "No SMIL documents found")
    /\ UNCHANGED <<inputs, ncc_path, metadata, output_directory, sections,
                   source_audio_files, mkdirOutcome, created, track_number,
                   destination_audio_files, fsFiles, playlist>>
    /\ UNCHANGED harnessVars

\* One pass of the loop over the documents: parse, title, audio files
ParseDocument ==
    /\ pc = "Parsing"
    /\ Len(sections) < Len(documents)
    /\ \E titleTags \in SmilTitlePool, audio \in SmilAudioPool :
         LET doc   == [path |-> documents[Len(sections) + 1], titleTags |-> titleTags,
                       audio |-> audio]
             title == find_document_title(doc)
             files == get_audio_filenames_from_smil(audio)
             bad   == {i \in 1..Len(files) : files[i] = None}
             upto  == IF bad = {} THEN Len(files)
                      ELSE (CHOOSE i \in bad : \A j \in bad : i <= j) - 1
         IN  /\ sections' = Append(sections, doc)
             /\ calls' = Append(calls, "open_smil")
             /\ IF title.kind # "ok"
                THEN \* the handler's message names `file`, which is not defined
                     /\ uncaught("NameError", "name 'file' is not defined")
                     /\ UNCHANGED source_audio_files
                ELSE /\ source_audio_files' = source_audio_files \o
                            [i \in 1..upto |->
                                <<title.value, os_path_join(input_directory, files[i][1])>>]
                     /\ IF bad # {}
                        THEN uncaught("TypeError", "expected str, bytes or os.PathLike object, not NoneType")
                        ELSE proceed("Parsing")
    /\ UNCHANGED <<inputs, ncc_path, metadata, output_directory, documents,
                   mkdirOutcome, created, track_number,
                   destination_audio_files, fsFiles, playlist>>
    /\ UNCHANGED harnessVars

SectionsParsed == pc = "Parsing" /\ Len(sections) = Len(documents)

MakeDirs ==
    /\ SectionsParsed
    /\ calls' = Append(calls, "makedirs")
    /\ \E outcome \in (IF dirExisted THEN {"FileExistsError"}
                       ELSE {"created", "PermissionError", "OSError"}) :
         /\ mkdirOutcome' = outcome
         /\ created' = (outcome = "created")
         /\ IF outcome = "created" \/ outcome \in makedirs_swallowed
            THEN proceed("Copying")
            ELSE uncaught("FilesystemError", outcome)
    /\ track_number' = 1
    /\ UNCHANGED <<inputs, ncc_path, metadata, output_directory, documents, sections,
                   source_audio_files, destination_audio_files, fsFiles, playlist>>
    /\ UNCHANGED harnessVars

outputDirExists == dirExisted \/ created

\* One pass of the loop over source_audio_files
CopyFile ==
    /\ pc = "Copying"
    /\ Len(destination_audio_files) < Len(source_audio_files)
    /\ calls' = Append(calls, "copyfile")
    /\ LET entry == source_audio_files[Len(destination_audio_files) + 1]
           name  == destination_filename(track_number, entry[1], entry[2])
           joined == os_path_join(output_directory, name)
           destination_path == IF is_windows THEN add_path_prefix(joined) ELSE joined
       IN  \E copied \in (IF outputDirExists THEN BOOLEAN ELSE {FALSE}) :
             IF copied
             THEN /\ fsFiles' = Append(fsFiles, destination_path)
                  /\ destination_audio_files' =
                         Append(destination_audio_files, basename(destination_path))
                  /\ track_number' = track_number + 1
                  /\ proceed("Copying")
             ELSE /\ uncaught("FilesystemError", "copyfile")
                  /\ UNCHANGED <<fsFiles, destination_audio_files, track_number>>
    /\ UNCHANGED <<inputs, ncc_path, metadata, output_directory, documents, sections,
                   source_audio_files, mkdirOutcome, created, playlist>>
    /\ UNCHANGED harnessVars

FilesCopied == pc = "Copying" /\ Len(destination_audio_files) = Len(source_audio_files)

WritePlaylist ==
    /\ FilesCopied
    /\ calls' = Append(calls, "open_playlist")
    /\ LET joined == os_path_join(output_directory, playlist_filename(metadata[1].title))
           playlist_path == IF is_windows THEN add_path_prefix(joined) ELSE joined
       IN  \E written \in (IF outputDirExists THEN BOOLEAN ELSE {FALSE}) :
             IF written
             THEN /\ playlist' = <<[path |-> playlist_path,
                                    text |-> playlist_text(destination_audio_files)]>>
                  /\ proceed("Done")
             ELSE /\ uncaught("FilesystemError", "open")
                  /\ UNCHANGED playlist
    /\ UNCHANGED <<inputs, ncc_path, metadata, output_directory, documents, sections,
                   source_audio_files, mkdirOutcome, created, track_number,
                   destination_audio_files, fsFiles>>
    /\ UNCHANGED harnessVars

Next ==
    \/ Validate
    \/ FindNccPath
    \/ CreateMetadataObject
    \/ FindSmilDocuments
    \/ ParseDocument
    \/ MakeDirs
    \/ CopyFile
    \/ WritePlaylist

Spec == Init /\ [][Next]_vars

----------------------------------------------------------------------------
(* Properties *)

Called(op) == \E i \in 1..Len(calls) : calls[i] = op
CountCalls(op) == Cardinality({i \in 1..Len(calls) : calls[i] = op})
LastCall == IF calls = <<>> THEN "none" ELSE calls[Len(calls)]
Terminated == pc \in {"Done", "Failed"}

\* The subsequence of seq at the indices in keep
RECURSIVE Pick(_, _)
Pick(seq, keep) ==
    IF seq = <<>> THEN <<>>
    ELSE Pick(SubSeq(seq, 1, Len(seq) - 1), keep)
           \o (IF Len(seq) \in keep THEN <<seq[Len(seq)]>> ELSE <<>>)

\* The audio references of a section, each at its first position
FirstOccurrences(audio) ==
    Pick(audio, {i \in 1..Len(audio) : \A j \in 1..(i - 1) : audio[j] # audio[i]})

RECURSIVE Flattened(_)
Flattened(secs) ==
    IF secs = <<>> THEN <<>>
    ELSE LET sec == secs[Len(secs)]
             refs == FirstOccurrences(sec.audio)
         IN  Flattened(SubSeq(secs, 1, Len(secs) - 1)) \o
             [i \in 1..Len(refs) |-> <<sec.titleTags[1][1], input_directory \o Str(<<"/">>) \o refs[i][1]>>]

\* The track number a destination name carries: its leading digits
TrackOf(name) == int_of(SubSeq(name, 1, digit_run(name)))

\* C1: once the copy step is reached, the audio entries are the sections'
\* de-duplicated audio references in section order, and the track numbers given
\* to them are 1, 2, ..., N without gap or repeat; a section without audio takes
\* no number.
C1_TrackNumbersContiguous ==
    /\ \A i \in 1..Len(destination_audio_files) :
          /\ TrackOf(destination_audio_files[i]) = i
          /\ Len(destination_audio_files[i]) >= 2
          /\ digit_run(destination_audio_files[i]) >= 2
    /\ pc \in {"Copying", "Done"} =>
          /\ source_audio_files = Flattened(sections)
          /\ track_number = Len(destination_audio_files) + 1
    /\ pc = "Done" => Len(destination_audio_files) = Len(Flattened(sections))

C1_Witness ==
    /\ pc = "Done"
    /\ Len(sections) = 3
    /\ Len(sections[1].audio) = 3
    /\ Len(FirstOccurrences(sections[1].audio)) = 2
    /\ sections[2].audio = <<>>
    /\ Len(sections[3].audio) = 1
    /\ TrackOf(destination_audio_files[3]) = 3
    /\ Len(destination_audio_files) = 3

\* C2 as stated: an existing directory is passed over, and every other failure of
\* the directory creation, permission denied included, ends the run before any
\* copy or playlist write.
C2_PermissionDeniedFatal ==
    /\ (mkdirOutcome = "FileExistsError" /\ LastCall = "makedirs") => pc = "Copying"
    /\ mkdirOutcome \in {"PermissionError", "OSError"} =>
          /\ pc = "Failed"
          /\ ~Called("copyfile")
          /\ ~Called("open_playlist")

\* C2, amended: an existing directory and a denied permission are both passed
\* over and the run goes on to the copy step; any other failure of the directory
\* creation ends the run, with no copy and no playlist write attempted after it.
C2_ExistsAndPermissionSwallowed ==
    /\ (mkdirOutcome \in {"FileExistsError", "PermissionError"} /\ LastCall = "makedirs")
          => (pc = "Copying" /\ error = "None")
    /\ mkdirOutcome = "OSError" =>
          /\ pc = "Failed"
          /\ error = "FilesystemError"
          /\ LastCall = "makedirs"
          /\ ~Called("copyfile")
          /\ ~Called("open_playlist")

C2_Witness ==
    /\ mkdirOutcome = "PermissionError"
    /\ ~outputDirExists
    /\ Called("copyfile")

NoNavigationFile ==
    inputDirOk /\ Str(<<"N", "C", "C", ".", "H", "T", "M", "L">>) \notin nccNames
               /\ Str(<<"n", "c", "c", ".", "h", "t", "m", "l">>) \notin nccNames

ZeroTimingDocuments ==
    /\ inputDirOk
    /\ \A i \in 1..Len(listing) :
          \/ ~glob_match(listing[i])
          \/ lower(listing[i]) = Str(<<"m", "a", "s", "t", "e", "r", ".", "s", "m", "i", "l">>)

\* C3 as stated: without a navigation file, or without a timing document other
\* than the master, the run ends with NotADaisyBook before the metadata
\* extraction is attempted, and creates no output directory.
C3_NotADaisyBookBeforeMetadata ==
    (Terminated /\ (NoNavigationFile \/ ZeroTimingDocuments)) =>
        /\ pc = "Failed"
        /\ error = "NotADaisyBook"
        /\ ~Called("open_ncc")
        /\ ~created

\* C3, amended: without a navigation file the run ends with NotADaisyBook before
\* the metadata extraction is attempted; with a navigation file but no timing
\* document the metadata extraction comes first, and the run ends with
\* NotADaisyBook only if it succeeded, with the extraction's own error otherwise.
\* In both cases no output directory is created.
C3_NavigationThenMetadataThenDocuments ==
    /\ (NoNavigationFile \/ ZeroTimingDocuments) =>
          /\ ~created
          /\ ~Called("makedirs")
          /\ pc \notin {"Parsing", "Copying", "Done"}
    /\ (Terminated /\ NoNavigationFile) =>
          /\ pc = "Failed"
          /\ error = "NotADaisyBook"
          /\ ~Called("open_ncc")
    /\ (Terminated /\ ~NoNavigationFile /\ ZeroTimingDocuments) =>
          /\ pc = "Failed"
          /\ Called("open_ncc")
          /\ metadata # <<>> => (error = "NotADaisyBook" /\ Called("glob"))
          /\ metadata = <<>> => (error \in {"MetadataMissing", "TypeError"} /\ ~Called("glob"))

C3_Witness ==
    /\ pc = "Failed"
    /\ ~NoNavigationFile
    /\ ZeroTimingDocuments
    /\ Len(listing) > 0
    /\ error = "MetadataMissing"

\* C4: the documents returned are exactly the names that match the glob and are
\* not, letter case aside, MASTER.SMIL; a name that only ends in master.smil is
\* returned.
C4_ExactlyMasterExcluded ==
    hpc = "found" =>
        {hout.documents[i] : i \in 1..Len(hout.documents)} =
        {hin.directory \o Str(<<"/">>) \o hin.names[i] :
            i \in {j \in 1..Len(hin.names) :
                     /\ glob_match(hin.names[j])
                     /\ upper(hin.names[j]) # Str(<<"M", "A", "S", "T", "E", "R", ".", "S", "M", "I", "L">>)}}

FileNameOf(path) == SubSeq(path, Len(hin.directory) + 2, Len(path))

\* C5 as stated: the documents are returned in ascending natural order of their
\* file names, digit runs compared as numbers and letter case ignored.
C5_SortedIgnoringCase ==
    hpc = "found" =>
        \A i, j \in 1..Len(hout.documents) :
            i < j => ~natsort_lt(lower(FileNameOf(hout.documents[j])),
                                 lower(FileNameOf(hout.documents[i])))

LeadingNumber(name) == int_of(SubSeq(name, 1, digit_run(name)))

\* C5, amended: the documents are returned in ascending natural order of their
\* file names, digit runs compared as numbers and the text between them by code
\* point, so that letter case counts: an upper-case letter comes before every
\* lower-case one.
C5_SortedNaturalCaseSensitive ==
    hpc = "found" =>
        \A i, j \in 1..Len(hout.documents) :
            i < j =>
              LET a == FileNameOf(hout.documents[i])
                  b == FileNameOf(hout.documents[j])
              IN  /\ ~natsort_lt(b, a)
                  /\ (digit_run(a) > 0 /\ digit_run(b) > 0) => LeadingNumber(a) <= LeadingNumber(b)
                  /\ (digit_run(a) = 0 /\ digit_run(b) = 0 /\ a[1] # b[1]) => a[1] < b[1]
                  /\ (digit_run(a) = 0) => (digit_run(b) = 0)

C5_Witness ==
    /\ hpc = "found"
    /\ hin.names = <<Str(<<"a", "1", ".", "s", "m", "i", "l">>),
                     Str(<<"1", "0", ".", "S", "M", "I", "L">>),
                     Str(<<"2", ".", "s", "m", "i", "l">>)>>
    /\ Len(hout.documents) = 3
    /\ FileNameOf(hout.documents[1]) = Str(<<"2", ".", "s", "m", "i", "l">>)
    /\ FileNameOf(hout.documents[2]) = Str(<<"1", "0", ".", "S", "M", "I", "L">>)

\* C6: make_safe_filename applied to its own result changes nothing.
C6_SanitizeIdempotent == hpc = "twice" => hout2 = hout

C6_Witness ==
    /\ hpc = "twice"
    /\ Len(hin) >= 4
    /\ \E i \in 1..(Len(hin) - 1) : hin[i] = Ord[":"] /\ hin[i + 1] = Ord[" "]
    /\ {hin[Len(hin) - 1], hin[Len(hin)]} = {Ord["."], Ord[" "]}
    /\ hout # hin
    /\ hout # <<>>

ForbiddenInNames ==
    (0..31) \cup {Ord["<"], Ord[">"], Ord[":"], Ord["\""], Ord["/"], Ord["\\"],
                  Ord["|"], Ord["?"], Ord["*"], Ord["^"]}

\* C7: the result of make_safe_filename holds none of < > : " / \ | ? * ^ and no
\* control character, does not end in a period or a space, and is the empty
\* string when the input holds nothing but periods and spaces.
C7_SanitizeSafe ==
    hpc \in {"once", "twice"} =>
        /\ \A i \in 1..Len(hout) : hout[i] \notin ForbiddenInNames
        /\ hout = <<>> \/ hout[Len(hout)] \notin {Ord["."], Ord[" "]}
        /\ (\A i \in 1..Len(hin) : hin[i] \in {Ord["."], Ord[" "]}) => hout = <<>>

C7_Witness ==
    /\ hpc = "once"
    /\ \E i \in 1..Len(hin) : hin[i] \in 0..31
    /\ \E i \in 1..Len(hin) : hin[i] = Ord["^"]
    /\ hin[Len(hin)] = Ord["."]
    /\ hin[Len(hin) - 1] = Ord["."]
    /\ hout # <<>>

TitleTagAbsent == ncc.titleTags = <<>>
TitleContentMissing == ncc.titleTags # <<>> /\ ncc.titleTags[1] = <<>>
TitleContentEmpty == ncc.titleTags # <<>> /\ ncc.titleTags[1] = << <<>> >>
TitleContentBlank ==
    /\ ncc.titleTags # <<>>
    /\ ncc.titleTags[1] # <<>>
    /\ ncc.titleTags[1][1] # <<>>
    /\ \A i \in 1..Len(ncc.titleTags[1][1]) :
          ncc.titleTags[1][1][i] \in {Ord[" "], Ord["\t"], Ord["\n"]}
NoCreatorTag == ncc.creatorTags = <<>>
CreatorsHaveContent == \A i \in 1..Len(ncc.creatorTags) : ncc.creatorTags[i] # <<>>

\* C8 as stated: the metadata extraction fails with MetadataMissing, and yields no
\* BookMetadata, when the title tag is absent, when its content is missing, empty
\* or only white space, or when there is no creator tag.
C8_BlankTitleRejected ==
    (Called("open_ncc") /\ CreatorsHaveContent
        /\ (TitleTagAbsent \/ TitleContentMissing \/ TitleContentEmpty
              \/ TitleContentBlank \/ NoCreatorTag)) =>
        /\ pc = "Failed"
        /\ error = "MetadataMissing"
        /\ metadata = <<>>

\* C8, amended: the metadata extraction fails with MetadataMissing, and yields no
\* BookMetadata, when the title tag is absent, when its content is missing or
\* empty, or when there is no creator tag; the absent tag and the missing or empty
\* content give different reasons.  A title of white space only is accepted.
C8_MissingOrEmptyTitleRejected ==
    Called("open_ncc") =>
        /\ (TitleTagAbsent \/ TitleContentMissing \/ TitleContentEmpty \/ NoCreatorTag) =>
              /\ pc = "Failed"
              /\ error = "MetadataMissing"
              /\ surfaced = "message"
              /\ metadata = <<>>
        /\ TitleTagAbsent => reason = "The title of the DAISY book could not be found"
        /\ (TitleContentMissing \/ TitleContentEmpty) =>
              reason = "The title of the DAISY book is blank"
        /\ (TitleContentBlank /\ ~NoCreatorTag /\ CreatorsHaveContent) =>
              /\ metadata # <<>>
              /\ metadata[1].title = ncc.titleTags[1][1]
              /\ error # "MetadataMissing"

C8_Witness ==
    /\ Called("open_ncc")
    /\ TitleContentEmpty
    /\ ~NoCreatorTag
    /\ pc = "Failed"
    /\ reason = "The title of the DAISY book is blank"

BadSectionTitle(sec) ==
    \/ sec.titleTags = <<>>
    \/ sec.titleTags[1] = <<>>
    \/ sec.titleTags[1] = << <<>> >>

\* C9: a timing document without a title tag, or with an empty title, ends the
\* run with MetadataMissing, reported as one message with a non-zero exit; no
\* later document is parsed, no output directory is created, no file is copied.
C9_SectionTitleMissingReported ==
    \A i \in 1..Len(sections) :
        BadSectionTitle(sections[i]) =>
            /\ pc = "Failed"
            /\ error = "MetadataMissing"
            /\ surfaced = "message"
            /\ exitCode # 0
            /\ i = Len(sections)
            /\ ~created
            /\ fsFiles = <<>>

\* The text cut at its line feeds
RECURSIVE SplitLines(_)
SplitLines(text) ==
    IF \A i \in 1..Len(text) : text[i] # Ord["\n"] THEN <<text>>
    ELSE LET k == CHOOSE i \in 1..Len(text) :
                    text[i] = Ord["\n"] /\ \A j \in 1..(i - 1) : text[j] # Ord["\n"]
         IN  <<SubSeq(text, 1, k - 1)>> \o SplitLines(SubSeq(text, k + 1, Len(text)))

====
